---- MODULE Spec2Model ----
(***************************************************************************)
(* State-machine model of src/app.py: the access gate (rotating token,     *)
(* self purge, intent oracle) and the three other endpoints that share the *)
(* knowledge vault, served by concurrent worker threads.                   *)
(***************************************************************************)
EXTENDS Integers, Sequences, FiniteSets, TLC

(***************************************************************************)
(* Bounds of the model.                                                    *)
(***************************************************************************)
\* The clock advances in ticks of TickSeconds seconds, up to MaxTime.
TickSeconds == 15
MaxTime == 60
\* The worker threads that serve requests concurrently.
Reqs == {"r1", "r2"}

(***************************************************************************)
(* Program constants.                                                      *)
(***************************************************************************)
SYSTEM_CORE == "ABQM-SOVEREIGN-V100"
SECRET_MANTRA == "BHARAT_SHAKTI_2026_AURUM"
\* time.time() / 30
Window == 30
\* hexdigest()[:12] of the session, hexdigest()[:16] of the vision id
SessionLen == 12
VisionIdLen == 16
\* a SHA3-256 hexdigest has 64 characters
Sha3_256HexLen == 64

(***************************************************************************)
(* Characters and text.  A text is a sequence of characters.               *)
(***************************************************************************)
Digits == <<"0", "1", "2", "3", "4", "5", "6", "7", "8", "9">>
LowerLetters == <<"a", "b", "c", "d", "e", "f", "g", "h", "i", "j", "k", "l", "m",
                  "n", "o", "p", "q", "r", "s", "t", "u", "v", "w", "x", "y", "z">>
UpperLetters == <<"A", "B", "C", "D", "E", "F", "G", "H", "I", "J", "K", "L", "M",
                  "N", "O", "P", "Q", "R", "S", "T", "U", "V", "W", "X", "Y", "Z">>
\* "e_acute" stands for one character outside ASCII.
Others == <<" ", "_", ".", "e_acute">>
Alphabet == Digits \o LowerLetters \o UpperLetters \o Others

Range(s) == {s[i] : i \in 1..Len(s)}

CharCode(c) == CHOOSE i \in 1..Len(Alphabet) : Alphabet[i] = c

IsAsciiChar(c) == c # "e_acute"

IsAscii(s) == \A i \in 1..Len(s) : IsAsciiChar(s[i])

\* str.upper(), one character
UpperChar(c) ==
    IF c \in Range(LowerLetters)
    THEN UpperLetters[CHOOSE i \in 1..Len(LowerLetters) : LowerLetters[i] = c]
    ELSE c

\* str.upper()
Upper(s) == [i \in 1..Len(s) |-> UpperChar(s[i])]

\* needle in hay
Contains(needle, hay) ==
    \E i \in 0..(Len(hay) - Len(needle)) : SubSeq(hay, i + 1, i + Len(needle)) = needle

\* s[:n]
Take(s, n) == SubSeq(s, 1, IF n < Len(s) THEN n ELSE Len(s))

RECURSIVE DecStr(_)
\* str(n) of a non-negative integer
DecStr(n) == IF n < 10 THEN <<Digits[n + 1]>> ELSE DecStr(n \div 10) \o <<Digits[(n % 10) + 1]>>

RECURSIVE CodeSum(_)
CodeSum(s) == IF s = <<>> THEN 0 ELSE CodeSum(Tail(s)) * 3 + CharCode(Head(s))

HexChars == SubSeq(Digits, 1, 10) \o SubSeq(LowerLetters, 1, 6)

\* hashlib.sha3_256(msg).hexdigest(): 64 lower-case hexadecimal characters that
\* depend on msg only.  The digest function itself is abstracted.
Sha3_256Hex(msg) ==
    [i \in 1..Sha3_256HexLen |-> HexChars[((CodeSum(msg) * (i + 6) + i * i) % 16) + 1]]

T_VALID == <<"V", "A", "L", "I", "D">>
T_MALICIOUS == <<"M", "A", "L", "I", "C", "I", "O", "U", "S">>
T_VALIDATION_OFFLINE == <<"V", "A", "L", "I", "D", "A", "T", "I", "O", "N", "_",
                          "O", "F", "F", "L", "I", "N", "E">>
T_DURESS == <<"D", "U", "R", "E", "S", "S">>
T_NORMAL == <<"N", "O", "R", "M", "A", "L">>
T_lower_duress == <<"d", "u", "r", "e", "s", "s">>

(***************************************************************************)
(* Python values that travel through the handlers: None, a str, a number,  *)
(* or the hexdigest of an HMAC (a str, kept symbolic: the HMAC is ideal,   *)
(* two digests are equal iff key and message are).                         *)
(***************************************************************************)
PyNone == [kind |-> "none", chars |-> <<>>, key |-> "", msg |-> <<>>]
PyStr(s) == [kind |-> "str", chars |-> s, key |-> "", msg |-> <<>>]
PyNum == [kind |-> "num", chars |-> <<>>, key |-> "", msg |-> <<>>]
PyDigest(k, m) == [kind |-> "digest", chars |-> <<>>, key |-> k, msg |-> m]

IsText(v) == v.kind \in {"str", "digest"}

\* x or ""
OrEmpty(v) == IF v = PyNone \/ v = PyStr(<<>>) THEN PyStr(<<>>) ELSE v

\* hmac.new(key, msg, hashlib.sha3_512).hexdigest()
HmacSha3_512Hex(k, m) == PyDigest(k, m)

\* a window of twice the length
TimeStepWide(t) == t \div (2 * Window)

\* int(time.time() / 30)
TimeStep(t) == t \div Window

\* the value of `expected` at time t
ExpectedToken(t) == HmacSha3_512Hex(SECRET_MANTRA, DecStr(TimeStep(t)))

\* hmac.compare_digest raises TypeError on a str with a non-ASCII character
CompareDigestRaises(a, b) ==
    \/ ~IsText(a) \/ ~IsText(b)
    \/ ~IsAscii(a.chars) \/ ~IsAscii(b.chars)

\* hmac.compare_digest(a, b), when it does not raise
CompareDigest(a, b) == a = b

\* QuantumGuard.verify_rotating_token at time t
VerifyRaises(user_token, t) == CompareDigestRaises(OrEmpty(user_token), ExpectedToken(t))
verify_rotating_token(user_token, t) == CompareDigest(OrEmpty(user_token), ExpectedToken(t))

(***************************************************************************)
(* The intent oracle (SaraswatiAI.consult_oracle).                         *)
(***************************************************************************)
T_lower_malicious == <<"m", "a", "l", "i", "c", "i", "o", "u", "s">>
T_mixed_malicious == <<"i", "s", " ", "M", "a", "l", "i", "c", "i", "o", "u", "s", ".">>

\* What requests.post / res.json() can produce.  outcome:
\*   "timeout", "conn_error"  requests.post raises
\*   "bad_json"               res.json() raises
\*   "not_object"             res.json() is not a dict: .get raises
\*   "object"                 res.json() is a dict; hasResponse: it has the key
\*                            'response', and response is the value under it
OracleTexts == {T_VALID, T_lower_malicious, T_mixed_malicious}
NoReply == [outcome |-> "none", hasResponse |-> FALSE, response |-> PyNone]
FailedReplies ==
    {[outcome |-> o, hasResponse |-> FALSE, response |-> PyNone] :
        o \in {"timeout", "conn_error", "bad_json", "not_object"}}
ObjectReplies ==
    {[outcome |-> "object", hasResponse |-> FALSE, response |-> PyNone]}
    \cup {[outcome |-> "object", hasResponse |-> TRUE, response |-> v] :
            v \in {PyNone} \cup {PyStr(s) : s \in OracleTexts}}
Replies == FailedReplies \cup ObjectReplies

\* the value consult_oracle returns for a reply
consult_oracle(reply) ==
    IF reply.outcome # "object"
    THEN PyStr(T_VALID)
    ELSE IF reply.hasResponse THEN reply.response ELSE PyStr(T_VALIDATION_OFFLINE)

\* ethics.upper() raises AttributeError unless ethics is a str
IntentRaises(ethics) == ethics.kind # "str"

\* "MALICIOUS" in ethics.upper()
IsMalicious(ethics) == Contains(T_MALICIOUS, Upper(ethics.chars))

\* the session without .upper()
SessionIdLower(t) == Take(Sha3_256Hex(DecStr(t)), SessionLen)

\* hashlib.sha3_256(str(time.time()).encode()).hexdigest()[:12].upper()
SessionId(t) == Upper(Take(Sha3_256Hex(DecStr(t)), SessionLen))

\* hashlib.sha3_256(content.encode()).hexdigest()[:16]
VisionId(content) == Take(Sha3_256Hex(content.chars), VisionIdLen)

(***************************************************************************)
(* Requests.                                                               *)
(***************************************************************************)
Tokens ==
    {PyNone, PyStr(<<>>), PyStr(<<"a", "b", "c">>), PyStr(<<"e_acute">>)}
    \cup {ExpectedToken(k * Window) : k \in 0..(MaxTime \div Window)}
BioStates == {PyNone, PyStr(T_NORMAL), PyStr(T_DURESS), PyStr(T_lower_duress)}
Intents == {PyNone, PyStr(<<"x">>)}
Contents == {PyStr(<<"a">>), PyStr(<<"b">>)}
VisionIds == {VisionId(c) : c \in Contents}

\* the JSON bodies of a POST to /gate/access
GateBodies ==
    [body : {"object"}, token : Tokens, bio_state : BioStates, intent : Intents,
     content : {PyNone}]
    \cup [body : {"null"}, token : {PyNone}, bio_state : {PyNone}, intent : {PyNone},
          content : {PyNone}]
\* the JSON bodies of a POST to /bvn/share_vision and /bvn/ai_analyze_canvas
\* (content stands for 'content' and for 'image_data')
ContentBodies ==
    [body : {"object"}, token : {PyNone}, bio_state : {PyNone}, intent : {PyNone},
     content : Contents \cup {PyNone}]
NoBody ==
    [body |-> "none", token |-> PyNone, bio_state |-> PyNone, intent |-> PyNone,
     content |-> PyNone]

Idle ==
    [kind |-> "idle", pc |-> "idle", data |-> NoBody,
     vtime |-> -1, verdict |-> "", nVerify |-> 0, nPurge |-> 0, nOracle |-> 0,
     reply |-> NoReply, ethics |-> PyNone,
     decision |-> "", status |-> 0, session |-> PyNone, error |-> "",
     fileId |-> <<>>, handle |-> "none", wire |-> "none"]

VARIABLES now, vault, req, workers

vars == <<now, vault, req, workers>>

\* The runs explored: one worker thread that is sent every request of the
\* sets above, or all worker threads, each sent a sample of them.
Concurrent == workers = Reqs
GateSample ==
    IF Concurrent
    THEN [body : {"object"},
          token : {ExpectedToken(k * Window) : k \in 0..(MaxTime \div Window)},
          bio_state : {PyStr(T_NORMAL), PyStr(T_DURESS)}, intent : {PyStr(<<"x">>)},
          content : {PyNone}]
    ELSE GateBodies
ContentSample ==
    IF Concurrent THEN {b \in ContentBodies : b.content # PyNone} ELSE ContentBodies
KindSample == IF Concurrent THEN {"gate", "share"} ELSE {"gate", "canvas", "share", "map"}
ReplySample ==
    IF Concurrent
    THEN {y \in Replies : y.outcome = "timeout" \/ y.response = PyStr(T_VALID)}
    ELSE Replies

NoFiles == [i \in VisionIds |-> "none"]

\* lines 20-22: the vault directory exists when the first request arrives; it
\* may hold the records of an earlier run.
Init ==
    /\ now \in {0, TickSeconds}
    /\ vault \in [exists : {TRUE}, files : [VisionIds -> {"none", "full"}]]
    /\ req = [r \in Reqs |-> Idle]
    /\ workers \in {{"r1"}, Reqs}

\* time passes
Tick ==
    /\ now + TickSeconds <= MaxTime
    /\ now' = now + TickSeconds
    /\ UNCHANGED <<vault, req, workers>>

Finished(r) == req[r].pc \in {"idle", "done", "error"}

\* A worker thread takes the next request.
Arrive(r) ==
    /\ r \in workers /\ Finished(r)
    /\ \E k \in KindSample :
         \E d \in (CASE k = "gate" -> GateSample
                     [] k = "map" -> {NoBody}
                     [] OTHER -> ContentSample) :
           req' = [req EXCEPT ![r] = [Idle EXCEPT !.kind = k, !.pc = "start", !.data = d]]
    /\ UNCHANGED <<now, vault, workers>>

(***************************************************************************)
(* requests.post(..., timeout=3.0), line 55.  The timeout of requests is   *)
(* the time the socket may stay without bytes, not the time of the whole   *)
(* call: every chunk that arrives starts it again.  wire is "c0" or "c1"   *)
(* while the call is in progress, by the parity of the chunks received so  *)
(* far, and "silent" when no byte has come for the timeout.                *)
(***************************************************************************)
\* a chunk of an unfinished response arrives
OracleTrickle(r) ==
    /\ req[r].pc = "oracle_wait" /\ req[r].wire \in {"c0", "c1"}
    /\ req' = [req EXCEPT ![r].wire = IF @ = "c0" THEN "c1" ELSE "c0"]
    /\ UNCHANGED <<now, vault, workers>>

\* the endpoint sends nothing for the length of the timeout
OracleSilence(r) ==
    /\ req[r].pc = "oracle_wait" /\ req[r].wire \in {"c0", "c1"}
    /\ req' = [req EXCEPT ![r].wire = "silent"]
    /\ UNCHANGED <<now, vault, workers>>

\* the ways the call can end now: the timeout exception once the socket has
\* been silent, any other outcome before
Arrived(r) == {y \in ReplySample : (y.outcome = "timeout") <=> (req[r].wire = "silent")}

\* an unhandled exception ends the request (Flask answers 500)
Raise(r, exc) == [req[r] EXCEPT !.pc = "error", !.error = exc, !.status = 500]

\* return jsonify({"status": decision, ...}), status
Respond(rec, decision, status) ==
    [rec EXCEPT !.pc = "done", !.decision = decision, !.status = status]

(***************************************************************************)
(* POST /gate/access                                                       *)
(***************************************************************************)
\* the identity check with one-time tokens: a token that a request on record
\* was admitted with is refused
GateVerifyConsuming(r) ==
    /\ req[r].kind = "gate" /\ req[r].pc = "start"
    /\ LET d == req[r].data
           checked == [req[r] EXCEPT !.vtime = now, !.nVerify = @ + 1]
           used == \E q \in Reqs : req[q].verdict = "True" /\ req[q].data.token = d.token
       IN req' = [req EXCEPT ![r] =
            IF d.body # "object" THEN Raise(r, "AttributeError")
            ELSE IF VerifyRaises(d.token, now)
                 THEN [checked EXCEPT !.pc = "error", !.error = "TypeError", !.status = 500,
                                      !.verdict = "TypeError"]
            ELSE IF ~verify_rotating_token(d.token, now) \/ used
                 THEN Respond([checked EXCEPT !.verdict = "False"], "DENIED", 403)
            ELSE [checked EXCEPT !.pc = "bio", !.verdict = "True"]]
    /\ UNCHANGED <<now, vault, workers>>

\* lines 78-82: data = request.json; the identity check.  data.get raises
\* AttributeError when the body is the JSON null.  vtime is the time.time() that
\* verify_rotating_token read and verdict what it returned ("True", "False") or
\* raised.
GateVerify(r) ==
    /\ req[r].kind = "gate" /\ req[r].pc = "start"
    /\ LET d == req[r].data
           checked == [req[r] EXCEPT !.vtime = now, !.nVerify = @ + 1]
       IN req' = [req EXCEPT ![r] =
            IF d.body # "object" THEN Raise(r, "AttributeError")
            ELSE IF VerifyRaises(d.token, now)
                 THEN [checked EXCEPT !.pc = "error", !.error = "TypeError", !.status = 500,
                                      !.verdict = "TypeError"]
            ELSE IF ~verify_rotating_token(d.token, now)
                 THEN Respond([checked EXCEPT !.verdict = "False"], "DENIED", 403)
            ELSE [checked EXCEPT !.pc = "bio", !.verdict = "True"]]
    /\ UNCHANGED <<now, vault, workers>>

\* the comparison made on the upper-cased text
IsDuressAnyCase(bio_state) == IsText(bio_state) /\ Upper(bio_state.chars) = T_DURESS

\* data.get('bio_state') == "DURESS"
IsDuress(bio_state) == bio_state = PyStr(T_DURESS)

\* the bio-integrity branch without its return: after the purge the handler
\* goes on to the intent check
GateBioFallThrough(r) ==
    /\ req[r].kind = "gate" /\ req[r].pc = "bio"
    /\ req' = [req EXCEPT ![r] =
         IF IsDuress(req[r].data.bio_state)
         THEN [req[r] EXCEPT !.pc = "purge_exists", !.nPurge = @ + 1, !.nOracle = @ + 1]
         ELSE [req[r] EXCEPT !.pc = "oracle_wait", !.nOracle = @ + 1, !.wire = "c0"]]
    /\ UNCHANGED <<now, vault, workers>>

\* lines 85-90: the bio-integrity branch: enter trigger_self_purge, or send the
\* login prompt to the oracle (requests.post, line 55).
GateBio(r) ==
    /\ req[r].kind = "gate" /\ req[r].pc = "bio"
    /\ req' = [req EXCEPT ![r] =
         IF IsDuress(req[r].data.bio_state)
         THEN [req[r] EXCEPT !.pc = "purge_exists", !.nPurge = @ + 1]
         ELSE [req[r] EXCEPT !.pc = "oracle_wait", !.nOracle = @ + 1, !.wire = "c0"]]
    /\ UNCHANGED <<now, vault, workers>>

\* return jsonify({"status": "AUTHORIZED", ..., "session": ...}) at time t
Authorize(rec, t) ==
    [Respond(rec, "AUTHORIZED", 200) EXCEPT !.session = PyStr(SessionId(t))]

\* the intent check preceded by a second identity check at the time the
\* oracle call ends
GateOracleReturnRecheck(r) ==
    /\ req[r].kind = "gate" /\ req[r].pc = "oracle_wait"
    /\ \E reply \in Arrived(r) :
         LET ethics == consult_oracle(reply)
             got == [req[r] EXCEPT !.reply = reply, !.ethics = ethics, !.wire = "none"]
         IN req' = [req EXCEPT ![r] =
              IF ~verify_rotating_token(req[r].data.token, now)
              THEN Respond(got, "DENIED", 403)
              ELSE IF IntentRaises(ethics)
              THEN [got EXCEPT !.pc = "error", !.error = "AttributeError", !.status = 500]
              ELSE IF IsMalicious(ethics)
                   THEN Respond(got, "FORBIDDEN", 401)
                   ELSE Authorize(got, now)]
    /\ UNCHANGED <<now, vault, workers>>

\* lines 58-60 and 90-94: the oracle call ends (a reply, or an exception that
\* consult_oracle catches) and the intent check decides.
GateOracleReturn(r) ==
    /\ req[r].kind = "gate" /\ req[r].pc = "oracle_wait"
    /\ \E reply \in Arrived(r) :
         LET ethics == consult_oracle(reply)
             got == [req[r] EXCEPT !.reply = reply, !.ethics = ethics, !.wire = "none"]
         IN req' = [req EXCEPT ![r] =
              IF IntentRaises(ethics)
              THEN [got EXCEPT !.pc = "error", !.error = "AttributeError", !.status = 500]
              ELSE IF IsMalicious(ethics)
                   THEN Respond(got, "FORBIDDEN", 401)
                   ELSE Authorize(got, now)]
    /\ UNCHANGED <<now, vault, workers>>

(***************************************************************************)
(* QuantumGuard.trigger_self_purge, one step per file-system call.         *)
(* shutil.rmtree unlinks the entries of the directory and then removes the *)
(* directory itself.  A record that a writer still holds open is detached  *)
(* from the directory by the unlink: the writer keeps writing to it, and   *)
(* nothing of it is visible in the vault any more.                         *)
(***************************************************************************)
Detach(rec, ids) ==
    IF rec.handle = "linked" /\ rec.fileId \in ids
    THEN [rec EXCEPT !.handle = "detached"]
    ELSE rec

Present(v) == {i \in VisionIds : v.files[i] # "none"}

\* the entries ids are unlinked
Unlink(v, ids) == [v EXCEPT !.files = [i \in VisionIds |-> IF i \in ids THEN "none" ELSE @[i]]]

\* os.rmdir of the emptied directory
Rmdir(v) == [v EXCEPT !.exists = FALSE]

\* os.makedirs(KNOWLEDGE_VAULT)
Makedirs(v) == [exists |-> TRUE, files |-> NoFiles]

\* return "INTELLECT_NEUTRALIZED" and line 87
PurgeReturn(rec) == Respond(rec, "PURGED", 410)

\* line 38: if os.path.exists(KNOWLEDGE_VAULT)
PurgeExists(r) ==
    /\ req[r].pc = "purge_exists"
    /\ req' = [req EXCEPT ![r] =
         IF vault.exists THEN [req[r] EXCEPT !.pc = "purge_rmtree"] ELSE PurgeReturn(req[r])]
    /\ UNCHANGED <<now, vault, workers>>

\* line 39, first part: rmtree lists the directory and unlinks its entries
PurgeRmtree(r) ==
    /\ req[r].pc = "purge_rmtree"
    /\ IF vault.exists
       THEN /\ vault' = Unlink(vault, Present(vault))
            /\ req' = [q \in Reqs |->
                 IF q = r THEN [req[r] EXCEPT !.pc = "purge_rmdir"]
                 ELSE Detach(req[q], Present(vault))]
       ELSE /\ req' = [req EXCEPT ![r] = Raise(r, "FileNotFoundError")]
            /\ UNCHANGED vault
    /\ UNCHANGED <<now, workers>>

\* line 39, second part: rmtree removes the directory
PurgeRmdir(r) ==
    /\ req[r].pc = "purge_rmdir"
    /\ IF ~vault.exists
       THEN /\ req' = [req EXCEPT ![r] = Raise(r, "FileNotFoundError")]
            /\ UNCHANGED vault
       ELSE IF Present(vault) # {}
       THEN /\ req' = [req EXCEPT ![r] = Raise(r, "OSError: Directory not empty")]
            /\ UNCHANGED vault
       ELSE /\ vault' = Rmdir(vault)
            /\ req' = [req EXCEPT ![r] = [req[r] EXCEPT !.pc = "purge_makedirs"]]
    /\ UNCHANGED <<now, workers>>

\* lines 40-41 and 87: os.makedirs, then both returns
PurgeMakedirs(r) ==
    /\ req[r].pc = "purge_makedirs"
    /\ IF vault.exists
       THEN /\ req' = [req EXCEPT ![r] = Raise(r, "FileExistsError")]
            /\ UNCHANGED vault
       ELSE /\ vault' = Makedirs(vault)
            /\ req' = [req EXCEPT ![r] = PurgeReturn(req[r])]
    /\ UNCHANGED <<now, workers>>

\* The storage fails under rmtree: some of the entries are gone, the directory
\* is still there, and OSError leaves trigger_self_purge.
PurgeRmtreeFault(r) ==
    /\ req[r].pc = "purge_rmtree" /\ vault.exists
    /\ \E ids \in SUBSET Present(vault) :
         /\ vault' = Unlink(vault, ids)
         /\ req' = [q \in Reqs |->
              IF q = r THEN Raise(r, "OSError") ELSE Detach(req[q], ids)]
    /\ UNCHANGED <<now, workers>>

\* os.makedirs fails inside a try/except that swallows the error
PurgeMakedirsFaultSwallowed(r) ==
    /\ req[r].pc = "purge_makedirs" /\ ~vault.exists
    /\ req' = [req EXCEPT ![r] = PurgeReturn(req[r])]
    /\ UNCHANGED <<now, vault, workers>>

\* The storage fails under os.makedirs: the vault stays absent.
PurgeMakedirsFault(r) ==
    /\ req[r].pc = "purge_makedirs" /\ ~vault.exists
    /\ req' = [req EXCEPT ![r] = Raise(r, "OSError")]
    /\ UNCHANGED <<now, vault, workers>>

(***************************************************************************)
(* POST /bvn/ai_analyze_canvas, POST /bvn/share_vision, GET /bvn/impact_map *)
(***************************************************************************)
\* lines 99-100 and 106-107: the handler sends its prompt to the oracle
ContentStart(r) ==
    /\ req[r].kind \in {"canvas", "share"} /\ req[r].pc = "start"
    /\ req' = [req EXCEPT ![r] = [req[r] EXCEPT !.pc = "oracle_wait", !.nOracle = @ + 1,
                                                !.wire = "c0"]]
    /\ UNCHANGED <<now, vault, workers>>

\* lines 100-101
CanvasOracleReturn(r) ==
    /\ req[r].kind = "canvas" /\ req[r].pc = "oracle_wait"
    /\ \E reply \in Arrived(r) :
         req' = [req EXCEPT ![r] =
            Respond([req[r] EXCEPT !.reply = reply, !.ethics = consult_oracle(reply),
                                    !.wire = "none"],
                    "ANALYZED", 200)]
    /\ UNCHANGED <<now, vault, workers>>

\* lines 107-112: the assessment arrives, the path is computed and the file is
\* opened for writing (created, or truncated when it exists)
ShareOpen(r) ==
    /\ req[r].kind = "share" /\ req[r].pc = "oracle_wait"
    /\ \E reply \in Arrived(r) :
         LET got == [req[r] EXCEPT !.reply = reply, !.ethics = consult_oracle(reply),
                                     !.wire = "none"]
             c == req[r].data.content
         IN IF c.kind # "str"
            THEN /\ req' = [req EXCEPT ![r] =
                      [got EXCEPT !.pc = "error", !.error = "AttributeError", !.status = 500]]
                 /\ UNCHANGED vault
            ELSE IF ~vault.exists
            THEN /\ req' = [req EXCEPT ![r] =
                      [got EXCEPT !.pc = "error", !.error = "FileNotFoundError",
                                  !.status = 500]]
                 /\ UNCHANGED vault
            ELSE /\ vault' = [vault EXCEPT !.files[VisionId(c)] = "partial"]
                 /\ req' = [req EXCEPT ![r] =
                      [got EXCEPT !.pc = "share_write", !.fileId = VisionId(c),
                                  !.handle = "linked"]]
    /\ UNCHANGED <<now, workers>>

\* lines 113-115: json.dump, the file is closed, the response
ShareWrite(r) ==
    /\ req[r].kind = "share" /\ req[r].pc = "share_write"
    /\ vault' = IF req[r].handle = "linked"
                THEN [vault EXCEPT !.files[req[r].fileId] = "full"]
                ELSE vault
    /\ req' = [req EXCEPT ![r] = Respond([req[r] EXCEPT !.handle = "closed"],
                                         "VISION_ENCODED", 200)]
    /\ UNCHANGED <<now, workers>>

\* the map endpoint starting from a fresh vault directory
GetMapRebuild(r) ==
    /\ req[r].kind = "map" /\ req[r].pc = "start"
    /\ req' = [req EXCEPT ![r] = Respond(req[r], "IMPACT_MAP", 200)]
    /\ vault' = Makedirs(vault)
    /\ UNCHANGED <<now, workers>>

\* lines 118-120
GetMap(r) ==
    /\ req[r].kind = "map" /\ req[r].pc = "start"
    /\ req' = [req EXCEPT ![r] = Respond(req[r], "IMPACT_MAP", 200)]
    /\ UNCHANGED <<now, vault, workers>>

(***************************************************************************)
(* The specifications.                                                     *)
(***************************************************************************)
Step(r) ==
    \/ Arrive(r)
    \/ GateVerify(r)
    \/ GateBio(r)
    \/ GateOracleReturn(r)
    \/ PurgeExists(r)
    \/ PurgeRmtree(r)
    \/ PurgeRmdir(r)
    \/ PurgeMakedirs(r)
    \/ ContentStart(r)
    \/ CanvasOracleReturn(r)
    \/ ShareOpen(r)
    \/ ShareWrite(r)
    \/ GetMap(r)

Fault(r) ==
    \/ PurgeRmtreeFault(r)
    \/ PurgeMakedirsFault(r)

\* what the oracle endpoint does while a call is in progress
Endpoint(r) ==
    \/ OracleTrickle(r)
    \/ OracleSilence(r)

Next ==
    \/ Tick
    \/ \E r \in Reqs : Step(r)
    \/ \E r \in Reqs : Fault(r)
    \/ \E r \in Reqs : Endpoint(r)

\* the program on storage that can fail
Spec == Init /\ [][Next]_vars

\* the steps a handler takes by itself: every call that does not wait for the
\* network returns or raises
Local(r) ==
    \/ GateVerify(r) \/ GateBio(r)
    \/ PurgeExists(r) \/ PurgeRmtree(r) \/ PurgeRmdir(r) \/ PurgeMakedirs(r)
    \/ Fault(r)
    \/ ContentStart(r) \/ ShareWrite(r) \/ GetMap(r)

\* time passes for a call in progress: a chunk arrives, the call ends, or the
\* socket stays silent for the timeout and then the timeout exception ends it
OracleTime(r) ==
    \/ Endpoint(r)
    \/ GateOracleReturn(r) \/ CanvasOracleReturn(r) \/ ShareOpen(r)

\* The program with its threads scheduled fairly and time passing.  Nothing
\* is assumed of the endpoint: it need not finish a response nor fall silent.
SpecLive ==
    /\ Init /\ [][Next]_vars
    /\ \A r \in Reqs : WF_vars(Local(r)) /\ WF_vars(OracleTime(r))

(***************************************************************************)
(* The properties.                                                         *)
(***************************************************************************)
GateReqs == {r \in Reqs : req[r].kind = "gate"}

\* the identity check of r has run
Checked(r) == req[r].vtime >= 0

\* r presented the expected token of the window in which it was checked
ValidToken(r) == Checked(r) /\ req[r].data.token = ExpectedToken(req[r].vtime)

\* no request is in flight
Quiescent == \A r \in Reqs : Finished(r)

\* C1: a gate request whose token is not the expected one is answered DENIED,
\* 403, whatever bio_state and intent are, and neither the purge nor the oracle
\* is entered for it.
C1_InvalidTokenDenied ==
    \A r \in GateReqs :
        (Checked(r) /\ ~ValidToken(r)) =>
            /\ req[r].decision = "DENIED" /\ req[r].status = 403
            /\ req[r].nPurge = 0 /\ req[r].nOracle = 0

\* The part of C1 that the code keeps: a request that did not pass the identity
\* check never enters the purge or the oracle, and is over; it is answered
\* DENIED, 403, when verify_rotating_token returned false.
InvalidTokenNoSideEffect ==
    \A r \in GateReqs :
        (req[r].pc # "start" /\ ~ValidToken(r)) =>
            /\ req[r].nPurge = 0 /\ req[r].nOracle = 0
            /\ req[r].pc \in {"done", "error"}
            /\ req[r].verdict = "False" => req[r].decision = "DENIED" /\ req[r].status = 403

\* C2: a gate request with a valid token and bio_state "DURESS" that returns,
\* returns PURGED, 410, without an oracle call, and at that moment the vault
\* exists and is empty.
C2_DuressPurged ==
    [][\A r \in Reqs :
         (/\ req[r].kind = "gate" /\ req[r].pc \notin {"done", "error"}
          /\ req[r].verdict = "True" /\ IsDuress(req[r].data.bio_state)
          /\ req'[r].pc = "done")
         => /\ req'[r].decision = "PURGED" /\ req'[r].status = 410
            /\ req'[r].nOracle = 0
            /\ vault'.exists /\ Present(vault') = {}]_vars

\* C3: a purge is serialized with the share_vision writes: no share_vision opens
\* its file while a purge is between delete and recreate and finds the store
\* missing, and no purge unlinks a record that a share_vision is still writing.
C3_PurgeSerialized ==
    [][\A r \in Reqs :
         /\ (/\ req[r].kind = "share" /\ req[r].pc = "oracle_wait"
             /\ req'[r].pc # "oracle_wait"
             /\ \E q \in Reqs : req[q].pc = "purge_makedirs")
            => req'[r].error # "FileNotFoundError"
         /\ req[r].handle = "linked" => req'[r].handle # "detached"]_vars

\* trigger_self_purge run alone on vault state v, without a storage fault
trigger_self_purge(v) ==
    IF v.exists THEN Makedirs(Rmdir(Unlink(v, Present(v)))) ELSE v

\* C4: from any vault state the server can be left in, purging twice gives what
\* purging once gives, and after a purge the store exists and is empty.
C4_PurgeIdempotentAndEmpties ==
    Quiescent =>
        LET once == trigger_self_purge(vault)
            twice == trigger_self_purge(once)
        IN /\ twice = once
           /\ once.exists /\ Present(once) = {}

\* the oracle call of r is over
Consulted(r) == req[r].reply # NoReply

\* the call failed: no reply in time, no connection, or a malformed reply (no
\* JSON, no JSON object, no 'response' in it, or a 'response' that is no text)
OracleFailed(reply) ==
    \/ reply.outcome \in {"timeout", "conn_error", "bad_json", "not_object"}
    \/ reply.outcome = "object" /\ (~reply.hasResponse \/ reply.response.kind # "str")

\* r passed the identity check and is not under duress
PastBio(r) == req[r].verdict = "True" /\ ~IsDuress(req[r].data.bio_state)

\* C5: a gate request with a valid token and without duress whose oracle call
\* failed is answered AUTHORIZED.
C5_FailOpen ==
    \A r \in GateReqs :
        (PastBio(r) /\ Consulted(r) /\ OracleFailed(req[r].reply)) =>
            req[r].decision = "AUTHORIZED" /\ req[r].status = 200 /\ req[r].error = ""

\* C6: whenever the oracle call failed, consult_oracle returned the one fallback
\* value, which is the benign answer.
C6_OneFallback ==
    \A r \in Reqs :
        (Consulted(r) /\ OracleFailed(req[r].reply)) => req[r].ethics = PyStr(T_VALID)

\* text holds "MALICIOUS" in some mix of upper and lower case
HoldsMalicious(v) ==
    /\ v.kind = "str"
    /\ \E i \in 0..(Len(v.chars) - Len(T_MALICIOUS)) :
         \A j \in 1..Len(T_MALICIOUS) :
            v.chars[i + j] \in {T_MALICIOUS[j], T_lower_malicious[j]}

\* C7: a gate request with a valid token and without duress is answered
\* FORBIDDEN, 401, if what the oracle call returned holds "MALICIOUS" in any
\* case, and AUTHORIZED, 200, if not.
C7_ForbiddenIffMalicious ==
    \A r \in GateReqs :
        (PastBio(r) /\ Consulted(r)) =>
            IF HoldsMalicious(req[r].ethics)
            THEN req[r].decision = "FORBIDDEN" /\ req[r].status = 401
            ELSE req[r].decision = "AUTHORIZED" /\ req[r].status = 200

\* C8: verify_rotating_token answers every candidate with a boolean: true for
\* the expected token of the current window, false for anything else, absent
\* included.
C8_VerifyTotal ==
    \A r \in GateReqs :
        Checked(r) =>
            req[r].verdict = (IF ValidToken(r) THEN "True" ELSE "False")

\* The part of C5 that the code keeps: a failure that consult_oracle catches,
\* or a reply without 'response', ends in AUTHORIZED.
FailOpenWhenCaught ==
    \A r \in GateReqs :
        (/\ PastBio(r) /\ Consulted(r) /\ OracleFailed(req[r].reply)
         /\ ~(req[r].reply.outcome = "object" /\ req[r].reply.hasResponse)) =>
            req[r].decision = "AUTHORIZED" /\ req[r].status = 200

\* The part of C7 that the code keeps: when consult_oracle returned a text, the
\* text decides between FORBIDDEN and AUTHORIZED.
TextDecides ==
    \A r \in GateReqs :
        (PastBio(r) /\ Consulted(r) /\ req[r].ethics.kind = "str") =>
            IF HoldsMalicious(req[r].ethics)
            THEN req[r].decision = "FORBIDDEN" /\ req[r].status = 401
            ELSE req[r].decision = "AUTHORIZED" /\ req[r].status = 200

\* C9: the expected token is the same all through a 30-second window and
\* differs 30 seconds later; a request that presents the expected token of its
\* window passes the identity check, and one that presents the expected token
\* of an earlier window is rejected.
C9_TokenWindow ==
    /\ \A t \in 0..MaxTime :
          (t \div 30 = now \div 30) => ExpectedToken(t) = ExpectedToken(now)
    /\ ExpectedToken(now) # ExpectedToken(now + 30)
    /\ \A r \in GateReqs : \A t \in 0..MaxTime :
          (Checked(r) /\ req[r].data.token = ExpectedToken(t)) =>
              /\ (t \div 30 = req[r].vtime \div 30) => req[r].verdict = "True"
              /\ (t \div 30 < req[r].vtime \div 30) =>
                    req[r].verdict = "False" /\ req[r].decision = "DENIED"

\* a request was rejected with the expected token of an earlier window
C9_Witness ==
    \E r \in GateReqs : \E t \in 0..MaxTime :
        /\ Checked(r) /\ req[r].data.token = ExpectedToken(t)
        /\ t \div 30 < req[r].vtime \div 30
        /\ req[r].decision = "DENIED"

GateDecisions ==
    {<<"AUTHORIZED", 200>>, <<"FORBIDDEN", 401>>, <<"DENIED", 403>>, <<"PURGED", 410>>}

UpperHex == Range(Digits) \cup {"A", "B", "C", "D", "E", "F"}

\* C10: a gate request that returns carries one of the four decisions with its
\* status code, and a session identifier, 12 upper-case hexadecimal characters,
\* exactly when the decision is AUTHORIZED.
C10_DecisionShape ==
    \A r \in GateReqs :
        req[r].pc = "done" =>
            /\ <<req[r].decision, req[r].status>> \in GateDecisions
            /\ (req[r].session # PyNone) <=> (req[r].decision = "AUTHORIZED")
            /\ req[r].decision = "AUTHORIZED" =>
                  /\ req[r].session.kind = "str"
                  /\ Len(req[r].session.chars) = 12
                  /\ Range(req[r].session.chars) \subseteq UpperHex

\* an AUTHORIZED response whose session identifier holds a letter
C10_Witness ==
    \E r \in GateReqs :
        /\ req[r].pc = "done" /\ req[r].decision = "AUTHORIZED"
        /\ Range(req[r].session.chars) \cap {"A", "B", "C", "D", "E", "F"} # {}

\* a required field of the body is missing, or the body is no JSON object
Malformed(d) ==
    d.body # "object" \/ d.token = PyNone \/ d.bio_state = PyNone \/ d.intent = PyNone

\* C11: a malformed gate request is rejected before the identity check runs,
\* with an outcome that is not DENIED/403 nor any other decision of the gate,
\* and reaches neither the purge nor the oracle.
C11_MalformedRejected ==
    \A r \in GateReqs :
        (Malformed(req[r].data) /\ req[r].pc # "start") =>
            /\ req[r].nVerify = 0 /\ req[r].nPurge = 0 /\ req[r].nOracle = 0
            /\ req[r].pc \in {"done", "error"}
            /\ req[r].decision \notin {"DENIED", "PURGED", "FORBIDDEN", "AUTHORIZED"}

\* the request ended in an unhandled exception: a 500 without a decision
ServerFailure(rec) ==
    rec.pc = "error" /\ rec.error # "" /\ rec.status = 500 /\ rec.decision = ""

\* C12: a purge whose delete or recreate does not go through ends the request
\* in a server-side failure without a decision, and the failure stays.
C12_PurgeFaultPropagates ==
    [][\A r \in Reqs :
         /\ (req[r].pc = "purge_rmtree" /\ req'[r].pc \notin {"purge_rmtree", "purge_rmdir"})
               => ServerFailure(req'[r])
         /\ (req[r].pc = "purge_rmdir" /\ req'[r].pc \notin {"purge_rmdir", "purge_makedirs"})
               => ServerFailure(req'[r])
         /\ (/\ req[r].pc = "purge_makedirs" /\ req'[r].pc # "purge_makedirs"
             /\ ~(~vault.exists /\ vault'.exists))
               => ServerFailure(req'[r])
         /\ (req[r].pc = "error" /\ req'[r].pc # "start") => req'[r] = req[r]]_vars

\* a gate request ended in OSError inside its purge, the vault left absent
C12_Witness ==
    \E r \in GateReqs :
        /\ ServerFailure(req[r]) /\ req[r].error = "OSError" /\ req[r].nPurge = 1
        /\ ~vault.exists

PurgePcs == {"purge_exists", "purge_rmtree", "purge_rmdir", "purge_makedirs"}

\* the request got past request.json: its body is a JSON object
Entered(r) == req[r].kind = "gate" /\ req[r].data.body = "object" /\ req[r].pc # "start"

\* C14: the stages of a gate request run in the order identity, bio, intent
\* without repetition: verification runs once and before anything else, the
\* purge and the oracle call run at most once each, and never both.
C14_StageOrder ==
    \A r \in GateReqs :
        LET rec == req[r]
        IN /\ rec.nVerify <= 1 /\ rec.nPurge <= 1 /\ rec.nOracle <= 1
           /\ rec.nPurge + rec.nOracle <= 1
           /\ Entered(r) => rec.nVerify = 1
           /\ rec.nPurge + rec.nOracle > 0 => (rec.nVerify = 1 /\ rec.verdict = "True")
           /\ rec.pc = "start" => rec.nVerify + rec.nPurge + rec.nOracle = 0
           /\ rec.pc = "bio" => rec.nPurge + rec.nOracle = 0
           /\ rec.pc \in PurgePcs => (rec.nPurge = 1 /\ rec.nOracle = 0)
           /\ rec.pc = "oracle_wait" => (rec.nOracle = 1 /\ rec.nPurge = 0)
           /\ rec.decision = "PURGED" => rec.nPurge = 1
           /\ rec.decision \in {"FORBIDDEN", "AUTHORIZED"} => rec.nOracle = 1
           /\ rec.decision = "DENIED" => rec.nPurge + rec.nOracle = 0

\* both branches of the bio stage were taken by finished requests
C14_Witness ==
    \E r, q \in GateReqs :
        /\ req[r].decision = "PURGED" /\ req[r].nVerify = 1 /\ req[r].nPurge = 1
        /\ req[q].decision = "AUTHORIZED" /\ req[q].nVerify = 1 /\ req[q].nOracle = 1

\* C15: the vault is changed only by steps of a purge and of share_vision; a
\* step of share_vision removes no record and touches only its own; a gate
\* request that ends DENIED, FORBIDDEN or AUTHORIZED never entered the purge.
C15_VaultFrame ==
    [][/\ vault' # vault =>
            \E r \in Reqs :
               /\ req'[r].pc # req[r].pc
               /\ \/ req[r].kind = "gate" /\ req[r].pc \in PurgePcs
                  \/ /\ req[r].kind = "share"
                     /\ vault'.exists = vault.exists
                     /\ Present(vault) \subseteq Present(vault')
                     /\ \A i \in VisionIds \ {req'[r].fileId} :
                           vault'.files[i] = vault.files[i]
       /\ \A r \in Reqs :
            req'[r].decision \in {"DENIED", "FORBIDDEN", "AUTHORIZED"}
               => req'[r].nPurge = 0]_vars

\* share_vision wrote its record next to another one, which is still there
C15_Witness ==
    \E r \in Reqs :
        /\ req[r].kind = "share" /\ req[r].decision = "VISION_ENCODED"
        /\ req[r].handle = "closed"
        /\ vault.files[req[r].fileId] = "full"
        /\ \E i \in VisionIds \ {req[r].fileId} : vault.files[i] = "full"

\* the text of the token and the step of the window decide the verdict
VerdictOf(token, step) ==
    IF VerifyRaises(token, step * Window) THEN "TypeError"
    ELSE IF verify_rotating_token(token, step * Window) THEN "True"
    ELSE "False"

\* C16: two concurrent gate requests with a valid token and DURESS, neither
\* hit by a storage fault: both are answered PURGED, and once both are
\* finished the vault exists and is empty.
C16_ConcurrentDuress ==
    \A r, q \in GateReqs :
        (/\ r # q
         /\ \A x \in {r, q} : /\ req[x].verdict = "True"
                              /\ req[x].data.bio_state = PyStr(T_DURESS)
                              /\ Finished(x)
                              /\ req[x].error # "OSError")
        => /\ req[r].decision = "PURGED" /\ req[q].decision = "PURGED"
           /\ vault.exists /\ Present(vault) = {}

\* C17: the verdict of the identity check is a function of the token and of
\* the window of the clock alone, whatever was admitted before or is being
\* admitted at the same time, and the check changes nothing but the request.
C17_VerifyStateless ==
    [][\A r \in Reqs :
         (req[r].kind = "gate" /\ req[r].pc = "start" /\ req'[r].pc # "start"
          /\ req[r].data.body = "object")
         => /\ req'[r].verdict = VerdictOf(req[r].data.token, now \div Window)
            /\ req'[r].nVerify = 1
            /\ vault' = vault /\ now' = now
            /\ \A q \in Reqs \ {r} : req'[q] = req[q]]_vars

\* one token admitted for two requests in the same window
C17_Witness ==
    \E r, q \in GateReqs :
        /\ r # q
        /\ req[r].data.token = req[q].data.token
        /\ req[r].verdict = "True" /\ req[q].verdict = "True"
        /\ req[r].vtime \div Window = req[q].vtime \div Window

\* C18: a request that passed the identity check is not checked again: in
\* whatever window it goes on, it is never DENIED, and when it returns it is
\* with PURGED, FORBIDDEN or AUTHORIZED.
C18_CheckedOnce ==
    \A r \in GateReqs :
        req[r].verdict = "True" =>
            /\ req[r].nVerify = 1
            /\ req[r].decision # "DENIED"
            /\ req[r].pc = "done" => req[r].decision \in {"PURGED", "FORBIDDEN", "AUTHORIZED"}

\* the values the clock takes
Times == {t \in 0..MaxTime : t % TickSeconds = 0}

\* AUTHORIZED with a session identifier made in a window after the one of the
\* identity check
C18_Witness ==
    \E r \in GateReqs :
        /\ req[r].verdict = "True" /\ req[r].decision = "AUTHORIZED"
        /\ \E t \in Times : req[r].session = PyStr(SessionId(t))
        /\ \A t \in Times :
              req[r].session = PyStr(SessionId(t)) => t \div Window > req[r].vtime \div Window

\* C19: only the exact text "DURESS" starts the purge: a request with a valid
\* token and any other bio_state, or none, does not purge and goes on to the
\* intent check.
C19_ExactDuress ==
    \A r \in GateReqs :
        /\ req[r].nPurge > 0 => req[r].data.bio_state = PyStr(T_DURESS)
        /\ (/\ req[r].verdict = "True" /\ req[r].pc # "bio"
            /\ req[r].data.bio_state # PyStr(T_DURESS))
           => (req[r].nPurge = 0 /\ req[r].nOracle = 1 /\ req[r].decision # "PURGED")

\* lower-case "duress" and an absent bio_state both went to the intent check
C19_Witness ==
    \E r \in GateReqs :
        /\ req[r].verdict = "True" /\ req[r].pc = "done"
        /\ req[r].data.bio_state = PyStr(T_lower_duress)
        /\ req[r].nOracle = 1 /\ req[r].nPurge = 0
        /\ req[r].decision \in {"FORBIDDEN", "AUTHORIZED"}

\* C13: every gate request reaches a terminal outcome: it returns or ends in
\* an error, however the oracle endpoint behaves.
C13_GateTerminates ==
    \A r \in Reqs :
        (req[r].kind = "gate" /\ req[r].pc = "start") ~> (req[r].pc \in {"done", "error"})

====
